---- MODULE Spec2Model ----
(***************************************************************************)
(* ResNetRegressor (sktime/regression/deep_learning/resnet.py): the        *)
(* adapter that builds a compiled keras model from a ResNetNetwork and     *)
(* drives the keras training loop.                                         *)
(*                                                                         *)
(* Python objects are modelled as follows.                                 *)
(*   - None is the empty tuple, a value v that may be None is <<v>>.       *)
(*   - An attribute that does not exist yet (model_, optimizer_,           *)
(*     callbacks_, input_shape before the first fit) is Absent, an         *)
(*     attribute holding v is <<v>>.                                       *)
(*   - Mutable objects that can be aliased (callback lists, callbacks)     *)
(*     live in heap and are held by reference (an id).  An id names the    *)
(*     call that created the object: <<adapter, kind of call, number of    *)
(*     the call, what the object is, position>>.                           *)
(*   - A learning rate is an integer number of thousandths.                *)
(***************************************************************************)
EXTENDS Integers, Sequences, FiniteSets, TLC

VARIABLES
    obj,          \* obj[a]: the attributes of adapter instance a (self)
    tf_seed,      \* the process-wide seed of the framework (tf.random.set_seed)
    heap,         \* callback lists and callbacks, by id
    scope,        \* scope[a]: the call on a that creates objects now
    pc,           \* pc[a]: where the thread driving adapter a stands
    frame,        \* frame[a]: the locals of the call in flight on adapter a
    call,         \* call[a]: what the last _fit call on a did (history variable)
    ret,          \* ret[a]: what the last build_model call on a returned
    ncalls,       \* ncalls[a]: the _fit calls, the direct build_model calls
                  \* and the caller's list mutations so far on a
    keras_present,\* whether the soft dependency "keras" is importable
    test_params,  \* the last value get_test_params returned (Absent before)
    constructed,  \* constructed[a]: the keyword record a was built from and
                  \* its attributes right after __init__ (history variable)
    netlog,       \* netlog[a]: the model a's last build_model built, and
                  \* whether another build was seeded during it (history)
    interleaved   \* interleaved[a]: another adapter's build_model seeded the
                  \* framework since a's build_model in flight did (history)

vars == <<obj, tf_seed, heap, scope, pc, frame, call, ret, ncalls,
          keras_present, test_params, constructed, netlog, interleaved>>

\* ---------------------------------------------------------------- bounds
MaxFits == 2
MaxBuilds == 2
MaxMutations == 2

\* ------------------------------------------------------ program constants
DefaultEpochs == 1500
DefaultBatchSize == 16
AdamLearningRate == 10

\* ---------------------------------------------------------------- values
\* The adapter instances of the process are those Init constructs.
Adapters == DOMAIN obj

None == <<>>
Some(v) == <<v>>
Absent == <<>>
Attr(v) == <<v>>

Arg(kwargs, name, default) ==
    IF name \in DOMAIN kwargs THEN kwargs[name] ELSE default

\* A Python tuple of shape dimensions (X.shape, input_shape) is a sequence.
\* The conformance scenario's data set has shape (10, 1, 24).
ScenarioShape == <<10, 1, 24>>

\* The shapes (n_instances, n_dimensions, series_length) of X that are tried:
\* fewer dimensions than time points, more, as many, and the scenario's.
Shapes == {<<2, 1, 3>>, <<2, 3, 1>>, <<3, 2, 2>>, ScenarioShape}

\* A training set: the shape of X and the length of y.  The surrounding layer
\* is assumed to validate that both hold the same number of instances; a y
\* one longer stands for data that slipped through and makes the loop fail.
Datasets ==
    UNION {{[shape |-> s, y_len |-> k] : k \in {s[1], s[1] + 1}} : s \in Shapes}

\* The shapes (m, d) build_model is called with on its own.
InputShapes == {<<3, 1>>, <<1, 3>>, <<2, 2>>, <<24, 1>>}

\* keras.callbacks.LambdaCallback(): every hook is a no-op.
LambdaCallback == [raises |-> FALSE, calls |-> 0]
\* A callback of the caller whose on_epoch_end raises.
RaisingCallback == [raises |-> TRUE, calls |-> 0]

\* ---------------------------------------------------- get_test_params
\* Keyword records are functions on the names they give.
\* A variant whose first record asks for batches of 16.
get_test_params_batch16(keras) ==
    LET param1 == [n_epochs |-> 6, batch_size |-> 16, use_bias |-> FALSE]
        param2 == [n_epochs |-> 4, batch_size |-> 6, use_bias |-> TRUE]
        test_params0 == <<param1, param2>>
    IN  IF keras
        THEN Append(test_params0,
                    [n_epochs |-> 2, callbacks |-> Some(<<LambdaCallback>>)])
        ELSE test_params0

get_test_params(keras) ==
    LET param1 == [n_epochs |-> 6, batch_size |-> 4, use_bias |-> FALSE]
        param2 == [n_epochs |-> 4, batch_size |-> 6, use_bias |-> TRUE]
        test_params0 == <<param1, param2>>
    IN  IF keras
        THEN Append(test_params0,
                    [n_epochs |-> 2, callbacks |-> Some(<<LambdaCallback>>)])
        ELSE test_params0

\* Keyword records a caller other than the test suite may construct with.
CallerConfigs ==
    << <<>>,
       [random_state |-> Some(1),
        optimizer |-> Some([kind |-> "SGD", learning_rate |-> 100]),
        metrics |-> Some(<<"mean_absolute_error", "mean_squared_error">>)],
       [random_state |-> Some(2), n_epochs |-> 3, verbose |-> TRUE,
        metrics |-> Some(<<>>),
        callbacks |-> Some(<<LambdaCallback, RaisingCallback>>)] >>

Configs(keras) == get_test_params(keras) \o CallerConfigs

\* ------------------------------------------------------------- the heap
\* The state the operations transform, as one record.
World ==
    [obj |-> obj, tf_seed |-> tf_seed, heap |-> heap, scope |-> scope,
     frame |-> frame, call |-> call, ret |-> ret, ncalls |-> ncalls,
     netlog |-> netlog, interleaved |-> interleaved]

\* The id of the object `what` (at position i) that the call in scope on a
\* creates.
Fresh(w, a, what, i) == <<a, w.scope[a][1], w.scope[a][2], what, i>>

\* A call of the given kind on a begins.
Enter(w, a, kind) ==
    [w EXCEPT !.scope[a] = <<kind, w.ncalls[a][kind] + 1>>,
              !.ncalls[a][kind] = @ + 1]

Content(h, ref) == [i \in 1..Len(h[ref].items) |-> h[h[ref].items[i]]]

\* A new list object holding new callback objects in the given states: the
\* new heap and the reference to the list.
NewList(w, a, states) ==
    LET list == Fresh(w, a, "list", 0)
        ids == [i \in 1..Len(states) |-> Fresh(w, a, "callback", i)]
        new == {list} \cup {ids[i] : i \in 1..Len(states)}
    IN  [heap |-> [x \in DOMAIN w.heap \cup new |->
                     IF x = list THEN [items |-> ids]
                     ELSE IF x \in new THEN states[x[5]]
                     ELSE w.heap[x]],
         ref |-> list]

\* ------------------------------------------------------------ __init__
\* The caller's side of a construction: the objects the keyword record
\* names are created (the callback list with its callbacks, the optimizer),
\* and __init__ receives references to them.
CallerObjects(w, a, kwargs) ==
    LET cbs == Arg(kwargs, "callbacks", None)
        made == IF cbs = None
                THEN [heap |-> w.heap, ref |-> None]
                ELSE LET l == NewList(w, a, cbs[1])
                     IN  [heap |-> l.heap, ref |-> Some(l.ref)]
        opt == Arg(kwargs, "optimizer", None)
    IN  [heap |-> made.heap,
         callbacks |-> made.ref,
         optimizer |-> IF opt = None THEN None
                       ELSE Some([id |-> Fresh(w, a, "optimizer", 0),
                                  kind |-> opt[1].kind,
                                  learning_rate |-> opt[1].learning_rate])]

\* ResNetNetwork(random_state=random_state): the topology provider keeps the
\* seed it was constructed with.
ResNetNetwork(random_state) == [random_state |-> random_state]

\* ResNetRegressor.__init__: the attributes of the new instance.  (Line 84
\* raises when tensorflow is missing; the adapters here exist, so it is
\* installed.)
init_self(kwargs, callbacks, optimizer) ==
    [n_epochs |-> Arg(kwargs, "n_epochs", DefaultEpochs),
     callbacks |-> callbacks,
     verbose |-> Arg(kwargs, "verbose", FALSE),
     loss |-> Arg(kwargs, "loss", "mean_squared_error"),
     metrics |-> Arg(kwargs, "metrics", None),
     batch_size |-> Arg(kwargs, "batch_size", DefaultBatchSize),
     random_state |-> Arg(kwargs, "random_state", None),
     activation |-> Arg(kwargs, "activation", "linear"),
     use_bias |-> Arg(kwargs, "use_bias", TRUE),
     optimizer |-> optimizer,
     history |-> None,
     _network |-> ResNetNetwork(Arg(kwargs, "random_state", None)),
     \* attributes that exist only once build_model or _fit has set them
     optimizer_ |-> Absent,
     input_shape |-> Absent,
     model_ |-> Absent,
     callbacks_ |-> Absent]

\* ResNetRegressor(**kwargs) for instance a, the caller's objects included.
Construct(w, a, kwargs) ==
    LET c == CallerObjects(w, a, kwargs)
    IN  [w EXCEPT !.obj[a] = init_self(kwargs, c.callbacks, c.optimizer),
                  !.heap = c.heap]

\* --------------------------------------------------------- build_model
\* tf.random.set_seed(self.random_state): the process-wide seed is replaced.
\* A variant that leaves the framework's seed alone.
set_seed_skipped(w, a) == w

set_seed(w, a) == [w EXCEPT !.tf_seed = w.obj[a].random_state]

\* self.optimizer_: the configured optimizer object itself, or a new Adam.
\* A variant that ignores the configured optimizer.
resolve_optimizer_always_new(self, fresh) ==
    [id |-> fresh, kind |-> "Adam", learning_rate |-> AdamLearningRate]

resolve_optimizer(self, fresh) ==
    IF self.optimizer = None
    THEN [id |-> fresh, kind |-> "Adam", learning_rate |-> AdamLearningRate]
    ELSE self.optimizer[1]

\* The local metrics: the configured list, or ["mean_squared_error"].
\* A variant that tests `not self.metrics` instead of `is None`.
resolve_metrics_falsy(self) ==
    IF self.metrics = None \/ self.metrics = Some(<<>>)
    THEN <<"mean_squared_error">>
    ELSE self.metrics[1]

resolve_metrics(self) ==
    IF self.metrics = None
    THEN <<"mean_squared_error">>
    ELSE self.metrics[1]

\* self._network.build_network(input_shape): an input placeholder of the
\* given shape and the output tensor of the residual blocks, whose weights
\* are initialised from the process-wide seed in effect at the call.
build_network(network, input_shape, seed) ==
    [input_layer |-> [shape |-> input_shape],
     output_layer |-> [initialised_with |-> seed]]

\* keras.layers.Dense(units, activation, use_bias)(inbound)
Dense(units, activation, use_bias, inbound) ==
    [units |-> units, activation |-> activation, use_bias |-> use_bias,
     inbound |-> inbound]

\* keras.models.Model(inputs, outputs) followed by model.compile(...): a new
\* model object.
CompiledModel(id, inputs, outputs, loss, optimizer, metrics) ==
    [id |-> id,
     input_shape |-> inputs.shape,
     output_units |-> outputs.units,
     activation |-> outputs.activation,
     use_bias |-> outputs.use_bias,
     initialised_with |-> outputs.inbound.initialised_with,
     loss |-> loss,
     optimizer |-> optimizer,
     metrics |-> metrics,
     epochs_trained |-> 0]

\* build_model after the seeding: the world with self.optimizer_ set, and the
\* model that is returned.
build_model_body(w, a, input_shape) ==
    LET self == w.obj[a]
        optimizer_ == resolve_optimizer(self, Fresh(w, a, "optimizer", 0))
        metrics == resolve_metrics(self)
        net == build_network(self._network, input_shape, w.tf_seed)
        output_layer == Dense(1, self.activation, self.use_bias, net.output_layer)
        model == CompiledModel(Fresh(w, a, "model", 0), net.input_layer,
                               output_layer, self.loss, optimizer_, metrics)
    IN  [w |-> [w EXCEPT !.obj[a].optimizer_ = Attr(optimizer_),
                         !.netlog[a] = [model |-> Attr(model),
                                        input_shape |-> input_shape,
                                        interleaved |-> w.interleaved[a]]],
         model |-> model]

\* A variant that also stores the model and the shape on the adapter.
build_model_storing(w, a, input_shape) ==
    LET b == build_model_body(set_seed(w, a), a, input_shape)
    IN  [w |-> [b.w EXCEPT !.obj[a].model_ = Attr(b.model),
                           !.obj[a].input_shape = Attr(input_shape)],
         model |-> b.model]

build_model(w, a, input_shape) ==
    build_model_body(set_seed(w, a), a, input_shape)

\* ---------------------------------------------------------------- _fit
\* numpy's X.transpose(axes) on the shape, axes counted from 0.
\* A variant that leaves the axes where they are.
transpose_identity(shape, axes) == shape

transpose(shape, axes) == [i \in 1..Len(axes) |-> shape[axes[i] + 1]]

\* copy.deepcopy(value) for None or a reference to a callback list: a new
\* list holding new callbacks in the states the originals are in.
\* A variant that hands back the same reference.
deepcopy_alias(w, a, value) == [w |-> w, value |-> value]

deepcopy(w, a, value) ==
    IF value = None
    THEN [w |-> w, value |-> None]
    ELSE LET l == NewList(w, a, Content(w.heap, value[1]))
         IN  [w |-> [w EXCEPT !.heap = l.heap], value |-> Some(l.ref)]

\* What the callbacks argument of the training loop holds, as values.
Callbacks(h, value) == IF value = None THEN None ELSE Some(Content(h, value[1]))

\* The index of the first callback of the list that raises, 0 when none does.
FirstRaising(states) ==
    IF \E i \in 1..Len(states) : states[i].raises
    THEN CHOOSE i \in 1..Len(states) :
            states[i].raises /\ \A j \in 1..(i - 1) : ~states[j].raises
    ELSE 0

\* keras Model.fit(X, y, batch_size, epochs, verbose, callbacks) on model:
\* the loop raises when X and y or X and the model's input do not fit
\* together, or when a callback raises at the end of the first epoch;
\* otherwise it runs all epochs, calls every callback once per epoch and
\* returns a History with one entry per epoch.
model_fit(h, model, X, y_len, batch_size, epochs, verbose, callbacks) ==
    LET items == IF callbacks = None THEN <<>> ELSE h[callbacks[1]].items
        states == [i \in 1..Len(items) |-> h[items[i]]]
        bad == FirstRaising(states)
        mismatch == y_len # X[1] \/ Tail(X) # model.input_shape
        called(i) == IF mismatch THEN 0
                     ELSE IF bad = 0 THEN epochs
                     ELSE IF i <= bad THEN 1 ELSE 0
        touched == {items[i] : i \in 1..Len(items)}
        pos(x) == CHOOSE i \in 1..Len(items) : items[i] = x
    IN  [heap |-> [x \in DOMAIN h |->
                     IF x \in touched
                     THEN [h[x] EXCEPT !.calls = @ + called(pos(x))]
                     ELSE h[x]],
         model |-> [model EXCEPT !.epochs_trained =
                       IF mismatch THEN 0 ELSE IF bad = 0 THEN epochs ELSE 1],
         raised |-> mismatch \/ bad # 0,
         history |-> [model |-> model.id,
                      entries |-> epochs,
                      keys |-> <<"loss">> \o model.metrics]]

\* The record of one _fit call, kept for the properties.
NoCall ==
    [data |-> <<>>, X |-> <<>>, y_len |-> 0, train_invocations |-> 0,
     raised |-> FALSE,
     epochs |-> 0, batch_size |-> 0, callbacks |-> None,
     configured_at_copy |-> None, seen_by_loop |-> None,
     configured_before_loop |-> None, configured_after_loop |-> None,
     prev_model |-> Absent, prev_history |-> None, built |-> Absent]

\* The model an attribute or a history refers to, when there is one.
ModelId(attr) == IF attr = Absent THEN Absent ELSE Attr(attr[1].id)
HistoryModel(history) == IF history = None THEN None ELSE Some(history[1].model)

\* Lines 165-168: the transposition and the recorded input shape.  (Line 167,
\* check_random_state, drops its result; the seeds used here are None or
\* integers, for which it does not raise.)
fit_enter(w, a, data) ==
    LET X == transpose(data.shape, <<0, 2, 1>>)
    IN  [w EXCEPT !.frame[a] = [X |-> X, y_len |-> data.y_len,
                                input_shape |-> Tail(X)],
                  !.obj[a].input_shape = Attr(Tail(X)),
                  !.call[a] = [NoCall EXCEPT !.data = data.shape,
                                  !.X = X, !.y_len = data.y_len,
                                  !.prev_model = ModelId(w.obj[a].model_),
                                  !.prev_history = HistoryModel(w.obj[a].history)]]

\* Line 169 after the seeding: self.model_ = <the model build_model returns>.
\* A variant that keeps a model already stored.
fit_build_reusing(w, a) ==
    IF w.obj[a].model_ # Absent
    THEN [w EXCEPT !.call[a].built = Attr(w.obj[a].model_[1].id)]
    ELSE LET b == build_model_body(w, a, w.obj[a].input_shape[1])
         IN  [b.w EXCEPT !.obj[a].model_ = Attr(b.model),
                         !.call[a].built = Attr(b.model.id)]

fit_build(w, a) ==
    LET b == build_model_body(w, a, w.obj[a].input_shape[1])
    IN  [b.w EXCEPT !.obj[a].model_ = Attr(b.model),
                    !.call[a].built = Attr(b.model.id)]

\* Line 173: self.callbacks_ = deepcopy(self.callbacks).  (Lines 170-171 print
\* the model summary when verbose and change nothing.)
fit_copy(w, a) ==
    LET c == deepcopy(w, a, w.obj[a].callbacks)
    IN  [c.w EXCEPT !.obj[a].callbacks_ = Attr(c.value),
                    !.call[a].configured_at_copy =
                        Callbacks(w.heap, w.obj[a].callbacks)]

\* Lines 174-182: one run of the training loop on self.model_ with the
\* configured batch size and epoch count and the copied callbacks; the
\* history is stored when the loop returns, an exception leaves _fit at once.
\* A variant that runs the loop a second time when it raised.
fit_train_retry(w, a) ==
    LET self == w.obj[a]
        callbacks_ == self.callbacks_[1]
        r1 == model_fit(w.heap, self.model_[1], w.frame[a].X, w.frame[a].y_len,
                        self.batch_size, self.n_epochs, self.verbose, callbacks_)
        r == IF r1.raised
             THEN model_fit(r1.heap, r1.model, w.frame[a].X, w.frame[a].y_len,
                        self.batch_size, self.n_epochs, self.verbose, callbacks_)
             ELSE r1
    IN  [w EXCEPT !.heap = r.heap,
                  !.obj[a].model_ = Attr(r.model),
                  !.obj[a].history = IF r.raised THEN @ ELSE Some(r.history),
                  !.call[a] = [@ EXCEPT
                      !.train_invocations = IF r1.raised THEN @ + 2 ELSE @ + 1,
                      !.raised = r.raised,
                      !.epochs = self.n_epochs,
                      !.batch_size = self.batch_size,
                      !.callbacks = callbacks_,
                      !.seen_by_loop = Callbacks(w.heap, callbacks_),
                      !.configured_before_loop = Callbacks(w.heap, self.callbacks),
                      !.configured_after_loop = Callbacks(r.heap, self.callbacks)]]

\* A variant that passes the epoch count and the batch size swapped.
fit_train_swapped(w, a) ==
    LET self == w.obj[a]
        callbacks_ == self.callbacks_[1]
        r == model_fit(w.heap, self.model_[1], w.frame[a].X, w.frame[a].y_len,
                       self.n_epochs, self.batch_size, self.verbose, callbacks_)
    IN  [w EXCEPT !.heap = r.heap,
                  !.obj[a].model_ = Attr(r.model),
                  !.obj[a].history = IF r.raised THEN @ ELSE Some(r.history),
                  !.call[a] = [@ EXCEPT
                      !.train_invocations = @ + 1,
                      !.raised = r.raised,
                      !.epochs = self.batch_size,
                      !.batch_size = self.n_epochs,
                      !.callbacks = callbacks_,
                      !.seen_by_loop = Callbacks(w.heap, callbacks_),
                      !.configured_before_loop = Callbacks(w.heap, self.callbacks),
                      !.configured_after_loop = Callbacks(r.heap, self.callbacks)]]

fit_train(w, a) ==
    LET self == w.obj[a]
        callbacks_ == self.callbacks_[1]
        r == model_fit(w.heap, self.model_[1], w.frame[a].X, w.frame[a].y_len,
                       self.batch_size, self.n_epochs, self.verbose, callbacks_)
    IN  [w EXCEPT !.heap = r.heap,
                  !.obj[a].model_ = Attr(r.model),
                  !.obj[a].history = IF r.raised THEN @ ELSE Some(r.history),
                  !.call[a] = [@ EXCEPT
                      !.train_invocations = @ + 1,
                      !.raised = r.raised,
                      !.epochs = self.n_epochs,
                      !.batch_size = self.batch_size,
                      !.callbacks = callbacks_,
                      !.seen_by_loop = Callbacks(w.heap, callbacks_),
                      !.configured_before_loop = Callbacks(w.heap, self.callbacks),
                      !.configured_after_loop = Callbacks(r.heap, self.callbacks)]]

\* ResNetRegressor._fit(X, y) as one call.
_fit(w, a, data) ==
    fit_train(fit_copy(fit_build(set_seed(fit_enter(w, a, data), a), a), a), a)

\* ResNetRegressor.build_model(input_shape) called on its own: the caller
\* receives the model.
build(w, a, input_shape) ==
    LET b == build_model(w, a, input_shape)
    IN  [b.w EXCEPT !.ret[a] = Attr(b.model)]

\* ------------------------------------------------------------ the caller
\* The caller changes the list it configured the adapter with: it appends a
\* callback, drops the last one, or runs the first one's hook itself.
CallerMutation(w, a, kind) ==
    LET list == w.obj[a].callbacks[1]
        items == w.heap[list].items
        new == Fresh(w, a, "callback", 0)
    IN  CASE kind = "append" ->
               [w EXCEPT !.heap = [x \in DOMAIN w.heap \cup {new} |->
                                     IF x = new THEN LambdaCallback
                                     ELSE IF x = list
                                     THEN [items |-> Append(items, new)]
                                     ELSE w.heap[x]]]
          [] kind = "pop" ->
               [w EXCEPT !.heap[list] =
                            [items |-> SubSeq(items, 1, Len(items) - 1)]]
          [] kind = "call" ->
               [w EXCEPT !.heap[items[1]].calls = @ + 1]

\* ----------------------------------------------------------- the state
\* The objects some adapter still refers to; the others have been freed.
Live(w) ==
    LET lists == UNION {{w.obj[a].callbacks[i] : i \in 1..Len(w.obj[a].callbacks)}
                          \cup (IF w.obj[a].callbacks_ = Absent THEN {}
                                ELSE {w.obj[a].callbacks_[1][i] :
                                        i \in 1..Len(w.obj[a].callbacks_[1])})
                        : a \in DOMAIN w.obj}
    IN  lists \cup UNION {{w.heap[l].items[i] : i \in 1..Len(w.heap[l].items)}
                            : l \in lists}

Commit(w) ==
    /\ obj' = w.obj
    /\ tf_seed' = w.tf_seed
    /\ heap' = [x \in Live(w) |-> w.heap[x]]
    /\ scope' = w.scope
    /\ frame' = w.frame
    /\ call' = w.call
    /\ ret' = w.ret
    /\ ncalls' = w.ncalls
    /\ netlog' = w.netlog
    /\ interleaved' = w.interleaved

NoFrame == [X |-> <<>>, y_len |-> 0, input_shape |-> <<>>]
NoLog == [model |-> Absent, input_shape |-> <<>>, interleaved |-> FALSE]

RECURSIVE ConstructAll(_, _, _, _)
ConstructAll(w, todo, configs, choice) ==
    IF todo = {} THEN w
    ELSE LET a == CHOOSE x \in todo : TRUE
         IN  ConstructAll(Construct(w, a, configs[choice[a]]), todo \ {a},
                          configs, choice)

\* The state after the adapters insts have been constructed, each from one
\* of the keyword records whose index is in indices.
InitOf(insts, keras, indices) ==
    /\ keras_present = keras
    /\ \E choice \in [insts -> indices] :
          LET empty == [obj |-> [a \in insts |-> <<>>],
                        tf_seed |-> None,
                        heap |-> <<>>,
                        scope |-> [a \in insts |-> <<"init", 0>>],
                        frame |-> [a \in insts |-> NoFrame],
                        call |-> [a \in insts |-> NoCall],
                        ret |-> [a \in insts |-> Absent],
                        ncalls |-> [a \in insts |->
                                      [fit |-> 0, build |-> 0, caller |-> 0]],
                        netlog |-> [a \in insts |-> NoLog],
                        interleaved |-> [a \in insts |-> FALSE]]
              w == ConstructAll(empty, insts, Configs(keras), choice)
          IN  /\ obj = w.obj
              /\ tf_seed = w.tf_seed
              /\ heap = w.heap
              /\ scope = w.scope
              /\ frame = w.frame
              /\ call = w.call
              /\ ret = w.ret
              /\ ncalls = w.ncalls
              /\ netlog = w.netlog
              /\ interleaved = w.interleaved
              /\ constructed = [a \in insts |->
                                  [cfg |-> choice[a], self |-> w.obj[a]]]
    /\ pc = [a \in insts |-> "idle"]
    /\ test_params = Absent

\* ------------------------------------------------- one call at a time
Init ==
    \E keras \in BOOLEAN : InitOf({"A"}, keras, 1..Len(Configs(keras)))

\* regressor._fit(X, y)
Fit(a) ==
    /\ pc[a] = "idle"
    /\ ncalls[a].fit < MaxFits
    /\ \E data \in Datasets : Commit(_fit(Enter(World, a, "fit"), a, data))
    /\ UNCHANGED <<pc, keras_present, test_params, constructed>>

\* regressor.build_model(input_shape), called on its own
BuildModel(a) ==
    /\ pc[a] = "idle"
    /\ ncalls[a].build < MaxBuilds
    /\ \E input_shape \in InputShapes :
          Commit(build(Enter(World, a, "build"), a, input_shape))
    /\ UNCHANGED <<pc, keras_present, test_params, constructed>>

\* ResNetRegressor.get_test_params()
GetTestParams ==
    /\ test_params' = Attr(get_test_params(keras_present))
    /\ UNCHANGED <<obj, tf_seed, heap, scope, pc, frame, call, ret, ncalls,
                   keras_present, constructed, netlog, interleaved>>

\* The caller changes the callback list it passed to the constructor.
CallerMutates(a) ==
    /\ ncalls[a].caller < MaxMutations
    /\ obj[a].callbacks # None
    /\ \E kind \in {"append", "pop", "call"} :
          /\ kind = "append" \/ heap[obj[a].callbacks[1]].items # <<>>
          /\ Commit(CallerMutation(Enter(World, a, "caller"), a, kind))
    /\ UNCHANGED <<pc, keras_present, test_params, constructed>>

Next ==
    \/ \E a \in Adapters : Fit(a)
    \/ \E a \in Adapters : BuildModel(a)
    \/ GetTestParams

Spec == Init /\ [][Next]_vars

\* ------------------------------------- a fit with the caller running beside
\* The thread in _fit is preempted between the seeding, the copy of the
\* callbacks and the training loop; the caller's thread changes its list
\* whenever it runs.
InFlight == {b \in Adapters : pc[b] \in {"build_seeded", "fit_seeded"}}

\* a's build_model seeds the framework: the builds in flight on other
\* adapters have been interleaved with it.
MarkSeeding(w, a, inflight) ==
    [w EXCEPT !.interleaved = [b \in DOMAIN @ |->
                                 IF b = a THEN FALSE
                                 ELSE IF b \in inflight THEN TRUE ELSE @[b]]]

\* Lines 165-169 up to tf.random.set_seed in build_model.
FitBegin(a) ==
    /\ pc[a] = "idle"
    /\ ncalls[a].fit < MaxFits
    /\ \E data \in Datasets :
          Commit(MarkSeeding(set_seed(fit_enter(Enter(World, a, "fit"), a, data), a),
                             a, InFlight))
    /\ pc' = [pc EXCEPT ![a] = "fit_seeded"]
    /\ UNCHANGED <<keras_present, test_params, constructed>>

\* The rest of build_model, the assignment of model_ and the deep copy.
FitBuild(a) ==
    /\ pc[a] = "fit_seeded"
    /\ Commit(fit_copy(fit_build(World, a), a))
    /\ pc' = [pc EXCEPT ![a] = "fit_copied"]
    /\ UNCHANGED <<keras_present, test_params, constructed>>

\* Lines 174-182: the training loop and the assignment of history.
FitTrain(a) ==
    /\ pc[a] = "fit_copied"
    /\ Commit(fit_train(World, a))
    /\ pc' = [pc EXCEPT ![a] = "idle"]
    /\ UNCHANGED <<keras_present, test_params, constructed>>

NextInFlight ==
    \/ \E a \in Adapters : FitBegin(a)
    \/ \E a \in Adapters : FitBuild(a)
    \/ \E a \in Adapters : FitTrain(a)
    \/ \E a \in Adapters : CallerMutates(a)

SpecInFlight == Init /\ [][NextInFlight]_vars

\* ------------------------------------------- two adapters, two threads
\* Each thread calls build_model on its own adapter and is preempted between
\* tf.random.set_seed and the rest.
InitConc ==
    InitOf({"A", "B"}, TRUE,
           (Len(get_test_params(TRUE)) + 1)..Len(Configs(TRUE)))

\* Line 120: tf.random.set_seed(self.random_state)
BuildBegin(a) ==
    /\ pc[a] = "idle"
    /\ ncalls[a].build < MaxBuilds
    /\ \E input_shape \in InputShapes :
          Commit(MarkSeeding([set_seed(Enter(World, a, "build"), a)
                                EXCEPT !.frame[a].input_shape = input_shape],
                             a, InFlight))
    /\ pc' = [pc EXCEPT ![a] = "build_seeded"]
    /\ UNCHANGED <<keras_present, test_params, constructed>>

\* Lines 122-148: the rest of build_model; the caller receives the model.
BuildEnd(a) ==
    /\ pc[a] = "build_seeded"
    /\ LET b == build_model_body(World, a, frame[a].input_shape)
       IN  Commit([b.w EXCEPT !.ret[a] = Attr(b.model)])
    /\ pc' = [pc EXCEPT ![a] = "idle"]
    /\ UNCHANGED <<keras_present, test_params, constructed>>

NextConc ==
    \/ \E a \in Adapters : BuildBegin(a)
    \/ \E a \in Adapters : BuildEnd(a)

SpecConc == InitConc /\ [][NextConc]_vars

\* ================================================================ claims
Fitted(a) == ncalls[a].fit > 0 /\ pc[a] = "idle"

\* The stored model and the stored history come from the same _fit call, or
\* neither exists.
SameFit(a) ==
    \/ obj[a].model_ = Absent /\ obj[a].history = None
    \/ /\ obj[a].model_ # Absent
       /\ obj[a].history # None
       /\ obj[a].history[1].model = obj[a].model_[1].id

\* C1 as stated: every _fit call runs the training loop at most once, and
\* after any sequence of succeeding and failing _fit calls the stored model
\* and the stored history belong to the same call or are both absent.
C1_AllOrNothing ==
    \A a \in Adapters : call[a].train_invocations <= 1 /\ SameFit(a)

\* C1, amended: every _fit call runs the training loop exactly once and a
\* failure leaves _fit at once; the failing call leaves the stored history
\* as it found it, but the stored model is already the one the failing call
\* built, a model no history belongs to.  After a succeeding call the model
\* and the history are both that call's.
C1_FailedFitKeepsHistory ==
    \A a \in Adapters :
        /\ call[a].train_invocations <= 1
        /\ Fitted(a) =>
              /\ call[a].train_invocations = 1
              /\ ModelId(obj[a].model_) = call[a].built
              /\ call[a].built # call[a].prev_model
              /\ call[a].raised =>
                    /\ HistoryModel(obj[a].history) = call[a].prev_history
                    /\ HistoryModel(obj[a].history) # Some(call[a].built[1])
              /\ ~call[a].raised => SameFit(a)

\* A failing _fit call after a succeeding one: the model is the failing
\* call's, the history the earlier call's.
C1_Witness ==
    \E a \in Adapters :
        /\ Fitted(a)
        /\ call[a].raised
        /\ obj[a].history # None
        /\ obj[a].history[1].model # obj[a].model_[1].id

\* C2: after a _fit call that succeeded, the stored model is the one that
\* call built, a new object and not the one stored before, and the stored
\* history is the one that call's training loop returned for that model.
C2_LastWriterWins ==
    \A a \in Adapters :
        Fitted(a) /\ ~call[a].raised =>
            /\ obj[a].model_[1].id = <<a, "fit", ncalls[a].fit, "model", 0>>
            /\ Attr(obj[a].model_[1].id) # call[a].prev_model
            /\ obj[a].model_[1].input_shape = Tail(call[a].X)
            /\ obj[a].model_[1].epochs_trained = obj[a].n_epochs
            /\ obj[a].history # None
            /\ obj[a].history[1].model = obj[a].model_[1].id
            /\ HistoryModel(obj[a].history) # call[a].prev_history
            /\ obj[a].history[1].entries = obj[a].n_epochs

\* A second successful _fit call on data of another shape than the first.
C2_Witness ==
    \E a \in Adapters :
        /\ Fitted(a)
        /\ ncalls[a].fit = 2
        /\ ~call[a].raised
        /\ call[a].prev_history # None
        /\ call[a].prev_history = Some(call[a].prev_model[1])
        /\ call[a].data = <<3, 2, 2>>

\* What build_model leaves alone: the stored model, history and input shape.
Stored(a) == <<obj[a].model_, obj[a].history, obj[a].input_shape>>

\* C3: before the first _fit call no model is stored, the history is None
\* and no input shape is recorded; a build_model call on its own, before or
\* after _fit calls, returns a model and leaves the stored model, the stored
\* history and the recorded input shape as they were.
C3_LazyAndBuildFrame ==
    /\ [](\A a \in Adapters :
            ncalls[a].fit = 0 =>
                /\ obj[a].model_ = Absent
                /\ obj[a].history = None
                /\ obj[a].input_shape = Absent)
    /\ [][\A a \in Adapters :
            ncalls'[a].build # ncalls[a].build =>
                /\ Stored(a)' = Stored(a)
                /\ ret'[a] # Absent
                /\ ret'[a][1].id = <<a, "build", ncalls'[a].build, "model", 0>>]_vars

\* build_model was called twice on its own, the last time after a _fit call
\* and with another shape than the one _fit recorded.
C3_Witness ==
    \E a \in Adapters :
        /\ Fitted(a)
        /\ ncalls[a].build = 2
        /\ call[a].prev_model = Absent
        /\ obj[a].model_[1].optimizer.id[2] = "fit"
        /\ obj[a].optimizer_[1].id[2] = "build"
        /\ obj[a].history # None
        /\ ret[a] # Absent
        /\ netlog[a].model = ret[a]
        /\ Attr(ret[a][1].input_shape) # obj[a].input_shape

\* C4 as stated: the stored model's input shape is (series_length,
\* n_dimensions) of the data last fitted and is never (n_dimensions,
\* series_length).
C4_NeverCallerLayout ==
    \A a \in Adapters :
        obj[a].model_ # Absent =>
            /\ obj[a].model_[1].input_shape = <<call[a].data[3], call[a].data[2]>>
            /\ obj[a].model_[1].input_shape # <<call[a].data[2], call[a].data[3]>>

\* C4, amended: _fit on X of shape (n, d, m) hands (n, m, d) to the training
\* loop, records the input shape (m, d) and stores a model whose input shape
\* is (m, d) and which has one output unit; that shape differs from (d, m)
\* whenever d # m.  build_model((m, d)) builds a model of input shape (m, d)
\* with one output unit.
C4_TransposedLayout ==
    \A a \in Adapters :
        /\ obj[a].model_ # Absent =>
              LET n == call[a].data[1]
                  d == call[a].data[2]
                  m == call[a].data[3]
              IN  /\ call[a].X = <<n, m, d>>
                  /\ obj[a].input_shape = Attr(<<m, d>>)
                  /\ obj[a].model_[1].input_shape = <<m, d>>
                  /\ obj[a].model_[1].output_units = 1
                  /\ d # m => obj[a].model_[1].input_shape # <<d, m>>
        /\ netlog[a].model # Absent =>
              /\ netlog[a].model[1].input_shape = netlog[a].input_shape
              /\ netlog[a].model[1].output_units = 1

\* The scenario's data, of shape (10, 1, 24), has been fitted: the model's
\* input shape is (24, 1).
C4_Witness ==
    \E a \in Adapters :
        /\ Fitted(a)
        /\ call[a].data = ScenarioShape
        /\ obj[a].model_[1].input_shape = <<24, 1>>
        /\ ret[a] # Absent

\* C5: when no other adapter's build_model seeds the framework between this
\* adapter's seeding and its network build, the network is built under the
\* adapter's own seed.
C5_SeedThenBuild ==
    \A a \in Adapters :
        netlog[a].model # Absent /\ ~netlog[a].interleaved =>
            netlog[a].model[1].initialised_with = obj[a].random_state

\* An interleaving in which one adapter's network was built while the
\* framework held the other adapter's, different, seed.
C5_Witness ==
    \E a, b \in Adapters :
        /\ a # b
        /\ netlog[a].model # Absent
        /\ netlog[a].interleaved
        /\ obj[a].random_state # obj[b].random_state
        /\ netlog[a].model[1].initialised_with = obj[b].random_state

\* The batch size an adapter constructed from the record trains with.
EffectiveBatchSize(record) == init_self(record, None, None).batch_size
EffectiveEpochs(record) == init_self(record, None, None).n_epochs

\* C6 as stated: get_test_params returns 2 records without the callback
\* library and 3 with it, each with an epoch count within 2..6 and an
\* effective batch size within 4..6.
C6_SmallLoops ==
    test_params # Absent =>
        /\ Len(test_params[1]) = IF keras_present THEN 3 ELSE 2
        /\ \A i \in 1..Len(test_params[1]) :
              /\ EffectiveEpochs(test_params[1][i]) \in 2..6
              /\ EffectiveBatchSize(test_params[1][i]) \in 4..6

\* C6, amended: 2 records without the callback library and 3 with it, each
\* with an epoch count within 2..6; the first two records set a batch size
\* within 4..6, the third sets none and so trains with the constructor's
\* default batch size, 16.
C6_SmallLoopsButDefaultBatch ==
    test_params # Absent =>
        /\ Len(test_params[1]) = IF keras_present THEN 3 ELSE 2
        /\ \A i \in 1..Len(test_params[1]) :
              /\ "n_epochs" \in DOMAIN test_params[1][i]
              /\ EffectiveEpochs(test_params[1][i]) \in 2..6
              /\ i <= 2 => /\ "batch_size" \in DOMAIN test_params[1][i]
                           /\ EffectiveBatchSize(test_params[1][i]) \in 4..6
              /\ i = 3 => /\ "batch_size" \notin DOMAIN test_params[1][i]
                          /\ EffectiveBatchSize(test_params[1][i]) = DefaultBatchSize

\* get_test_params has returned the three records.
C6_Witness ==
    /\ test_params # Absent
    /\ keras_present
    /\ Len(test_params[1]) = 3

\* The adapter was constructed from a record of get_test_params.
FromTestParams(a) == constructed[a].cfg <= Len(get_test_params(keras_present))
TestRecord(a) == get_test_params(keras_present)[constructed[a].cfg]

\* C7: every _fit call runs the training loop once, with the configured
\* epoch count and batch size; on an adapter constructed from a record of
\* get_test_params, a _fit call on a data set whose X and y hold the same
\* number of instances does not raise and leaves a history with one entry
\* per epoch of the record (6 entries for the first record).
C7_TestParamsFit ==
    \A a \in Adapters :
        Fitted(a) =>
            /\ call[a].train_invocations = 1
            /\ call[a].epochs = constructed[a].self.n_epochs
            /\ call[a].batch_size = constructed[a].self.batch_size
            /\ FromTestParams(a) /\ call[a].y_len = call[a].data[1] =>
                  /\ ~call[a].raised
                  /\ obj[a].history # None
                  /\ obj[a].history[1].entries = TestRecord(a).n_epochs
                  /\ obj[a].history[1].entries > 0
                  /\ call[a].epochs = TestRecord(a).n_epochs
                  /\ call[a].batch_size = EffectiveBatchSize(TestRecord(a))
                  /\ constructed[a].cfg = 1 => obj[a].history[1].entries = 6

\* The scenario: n_epochs=6, batch_size=4, use_bias=False fitted on 10
\* instances of shape (1, 24).
C7_Witness ==
    \E a \in Adapters :
        /\ Fitted(a)
        /\ constructed[a].cfg = 1
        /\ call[a].data = ScenarioShape
        /\ call[a].y_len = 10
        /\ call[a].batch_size = 4
        /\ ~obj[a].model_[1].use_bias
        /\ obj[a].model_[1].input_shape = <<24, 1>>
        /\ obj[a].history # None
        /\ obj[a].history[1].entries = 6

\* The optimizer a model is compiled with is the configured object when one
\* is configured, and else an Adam with learning rate 0.01 made by the call
\* that built the model.
ResolvedOptimizer(a, model) ==
    IF constructed[a].self.optimizer = None
    THEN /\ model.optimizer.kind = "Adam"
         /\ model.optimizer.learning_rate = 10
         /\ model.optimizer.id = <<a, model.id[2], model.id[3], "optimizer", 0>>
    ELSE model.optimizer = constructed[a].self.optimizer[1]

\* C8: every model build_model builds, on its own or within _fit, is
\* compiled with the resolved optimizer, which is stored as optimizer_; the
\* optimizer hyperparameter keeps the value it was constructed with.
C8_Optimizer ==
    \A a \in Adapters :
        /\ obj[a].optimizer = constructed[a].self.optimizer
        /\ netlog[a].model # Absent =>
              /\ ResolvedOptimizer(a, netlog[a].model[1])
              /\ obj[a].optimizer_ = Attr(netlog[a].model[1].optimizer)
        /\ obj[a].model_ # Absent => ResolvedOptimizer(a, obj[a].model_[1])
        /\ ret[a] # Absent => ResolvedOptimizer(a, ret[a][1])

\* An adapter configured with the caller's SGD optimizer has been fitted and
\* build_model has been called on it.
C8_Witness ==
    \E a \in Adapters :
        /\ obj[a].optimizer # None
        /\ Fitted(a)
        /\ ret[a] # Absent
        /\ obj[a].model_[1].optimizer.kind = "SGD"
        /\ ret[a][1].optimizer.id = obj[a].optimizer[1].id

\* The metrics a model is compiled with: the configured list when one is
\* configured, and else mean-squared-error alone.
ResolvedMetrics(a, model) ==
    IF constructed[a].self.metrics = None
    THEN model.metrics = <<"mean_squared_error">>
    ELSE model.metrics = constructed[a].self.metrics[1]

\* C9: every model build_model builds is compiled with the resolved metrics,
\* and the metrics hyperparameter keeps the value it was constructed with.
C9_Metrics ==
    \A a \in Adapters :
        /\ obj[a].metrics = constructed[a].self.metrics
        /\ netlog[a].model # Absent => ResolvedMetrics(a, netlog[a].model[1])
        /\ obj[a].model_ # Absent => ResolvedMetrics(a, obj[a].model_[1])
        /\ ret[a] # Absent => ResolvedMetrics(a, ret[a][1])

\* An adapter configured with the empty metrics list has been fitted: its
\* model is compiled with no metric.
C9_Witness ==
    \E a \in Adapters :
        /\ obj[a].metrics = Some(<<>>)
        /\ obj[a].model_ # Absent
        /\ obj[a].model_[1].metrics = <<>>
        /\ ret[a] # Absent

\* The configured callbacks, as values.
Configured(a) == Callbacks(heap, obj[a].callbacks)

\* The objects a callbacks value refers to.
Objects(h, value) ==
    IF value = None THEN {}
    ELSE {value[1]} \cup {h[value[1]].items[i] : i \in 1..Len(h[value[1]].items)}

\* C10: the training loop receives a copy that shares no object with the
\* configured list and holds what the configured list held when the copy was
\* taken, whatever the caller did to its list afterwards; what the loop does
\* to its callbacks does not show in the configured list; the callbacks
\* hyperparameter keeps the reference it was constructed with, and no step
\* of _fit changes what the configured list holds.
C10_DefensiveCopy ==
    /\ [](\A a \in Adapters :
            /\ obj[a].callbacks = constructed[a].self.callbacks
            /\ pc[a] = "fit_copied" =>
                  /\ Callbacks(heap, obj[a].callbacks_[1]) = call[a].configured_at_copy
                  /\ Objects(heap, obj[a].callbacks_[1])
                        \cap Objects(heap, obj[a].callbacks) = {}
            /\ call[a].train_invocations > 0 =>
                  /\ call[a].seen_by_loop = call[a].configured_at_copy
                  /\ call[a].configured_after_loop = call[a].configured_before_loop)
    /\ [][\A a \in Adapters : pc'[a] # pc[a] => Configured(a)' = Configured(a)]_vars

\* A training run that changed its callbacks has ended, on a copy taken
\* before the caller changed the configured list.
C10_Witness ==
    \E a \in Adapters :
        /\ pc[a] = "idle"
        /\ call[a].train_invocations > 0
        /\ ~call[a].raised
        /\ call[a].configured_at_copy # None
        /\ call[a].configured_at_copy # call[a].configured_before_loop
        /\ Callbacks(heap, obj[a].callbacks_[1]) # call[a].seen_by_loop

====
